---- MODULE Spec2Model ----
(***************************************************************************)
(* The browser side of rust-svelte-setup: the Google callback page, the    *)
(* BaseService fetch wrapper and the service clients built on it, together *)
(* with the backend tables they act on (users, sessions, oauth_accounts).  *)
(*                                                                         *)
(* Seven specifications share the state:                                    *)
(*   Spec         the callback flows of the Google callback page and the   *)
(*                backend calls they make, interleaved freely;             *)
(*   SpecSession  one login, and the calls the guarded page and the logout *)
(*                make through the token variant of the wrapper;           *)
(*   SpecFetch    one login, and the service methods' calls of this.fetch  *)
(*                followed one by one through the token variant, each      *)
(*                answered with any status;                                *)
(*   SpecOauth    the provider-generic callback page and the handler that  *)
(*                fills oauth_accounts;                                    *)
(*   SpecCookie   one login, and service methods called through the cookie *)
(*                variant of the wrapper;                                  *)
(*   SpecRelogin  two logins and one call through the token variant;       *)
(*   SpecDeploy   scripts/deploy.sh and scripts/undeploy.sh, run through   *)
(*                the justfile.                                            *)
(* The page calls createUser(googleId) and getUserIdFromGoogleId: the      *)
(* UserService it was written against is the one whose createUser takes    *)
(* the google id alone.  Its calls carry no token and take no part in the  *)
(* wrapper's 401 handling, which is the wrapper with auth = false.         *)
(*                                                                         *)
(* JavaScript null and undefined are both written Null.  A template        *)
(* literal `${null}` yields the four letters "null", which is why Null is  *)
(* that string: Str(v) below is what `${v}` produces.                      *)
(***************************************************************************)
EXTENDS Integers, FiniteSets, Sequences, TLC

\* ------------------------------------------------------------------ bounds
\* how many times the callback page's $effect runs (callback flows)
NumFlows == 2
\* how many calls the guarded page and the logout make through the wrapper
NumCalls == 3
\* rows the users table can take before POST /user answers with an error
MaxUsers == 2
\* session tokens POST /session can issue before it answers with an error
MaxSessions == 2
\* how many times the provider-generic callback page's $effect runs
NumCallbacks == 2
\* how many times just deploy / just undeploy are run
MaxRuns == 3

Flows == 1..NumFlows
Calls == 1..NumCalls
Callbacks == 1..NumCallbacks

\* ------------------------------------------------------------------ values
Null == "null"
NoHeader == "none"
\* values the login page may have left in sessionStorage, and values the
\* provider's redirect may carry
StoredStates == {Null, "abc"}
Verifiers == {Null, "ver"}
Codes == {Null, "xyz"}
States == {Null, "abc", "def"}
\* subject ids (the sub claim) the provider may assert
Subjects == {"g1", "g2"}
\* non-2xx statuses a backend call may be answered with, besides 404
ErrStatuses == {401, 500}

UserId(n) == "u" \o ToString(n)
\* a session token is the id of the session and its secret, joined by a dot
SessionId(n) == "s" \o ToString(n)
Secret(n) == "k" \o ToString(n)
TokenOf(n) == SessionId(n) \o "." \o Secret(n)

\* a sessions table that keeps the secret as it is
HashPlain(secret) == secret

\* the digest kept in sessions.secret_hash
Hash(secret) == "hash(" \o secret \o ")"

\* the id and the secret a presented token splits into; Null for a string
\* that is no token
TokenId(t) ==
    IF \E n \in 1..MaxSessions : TokenOf(n) = t
    THEN SessionId(CHOOSE n \in 1..MaxSessions : TokenOf(n) = t) ELSE Null
TokenSecret(t) ==
    IF \E n \in 1..MaxSessions : TokenOf(n) = t
    THEN Secret(CHOOSE n \in 1..MaxSessions : TokenOf(n) = t) ELSE Null

\* the row INSERTed into sessions (id, secret_hash, user_id)
SessionRow(n, userId) ==
    [id |-> SessionId(n), secret_hash |-> Hash(Secret(n)), user_id |-> userId]

\* `${v}`
Str(v) == v
\* !v for a string or undefined
Falsy(v) == v = Null \/ v = ""

VARIABLES
    sessionStorage,  \* [oauth_state, oauth_code_verifier] of the tab
    localStorage,    \* the value stored under 'sessionToken', or Null
    location,        \* the route the last goto / redirect asked for
    flow,            \* per run of the callback page's $effect
    net,             \* per flow: the request it awaits, and its response
    call,            \* per wrapper call of the guarded page / logout
    users,           \* users table
    sessions,        \* sessions table
    issued,          \* number of session tokens issued so far
    revoked,         \* tokens whose DELETE /session succeeded
    createdBy,       \* per flow: ids of the users its POST /user created
    errorShown,      \* per flow: whether the page rendered an error
    oauth_accounts,  \* oauth_accounts table
    cb,              \* per run of the provider-generic callback page
    stack            \* the compose stacks, and the script run on them

vars == <<sessionStorage, localStorage, location, flow, net, call, users,
          sessions, issued, revoked, createdBy, errorShown, oauth_accounts, cb,
          stack>>

browserVars == <<sessionStorage, localStorage, location>>
tokenBuildVars == <<sessionStorage, localStorage, location, flow, net, call,
                    sessions, issued, revoked, createdBy, errorShown, stack>>
oauthVars == <<oauth_accounts, cb>>

NoMsg == [kind |-> "none", arg |-> Null, authz |-> NoHeader, st |-> "none",
          status |-> 0, body |-> Null]

IdleFlow == [pc |-> "idle", storedState |-> Null, codeVerifier |-> Null,
             code |-> Null, state |-> Null, googleId |-> Null,
             existing |-> "none", userId |-> Null, token |-> Null,
             result |-> "none", failedAt |-> "none", calls |-> <<>>,
             resp |-> <<>>, wrote |-> Null, home |-> FALSE, steps |-> <<>>,
             completedBefore |-> 0]

\* the RequestInit of a call: method, body, and the two headers in use
NoInit == [method |-> "GET", contentType |-> NoHeader, authz |-> NoHeader,
           body |-> Null, credentials |-> NoHeader]

IdleCall == [op |-> "none", pc |-> "idle", authz |-> NoHeader, auth |-> TRUE,
             hadToken |-> Null, status |-> 0, body |-> Null,
             outcome |-> "none", errStatus |-> 0, afterRevoke |-> FALSE,
             requests |-> 0, init |-> NoInit, sent |-> NoInit,
             value |-> Null, builtWith |-> Null]

\* nothing is up and no script has run
IdleStack == [up |-> {}, running |-> FALSE, name |-> "none", pc |-> 1,
              status |-> 0, runs |-> 0,
              trace |-> [n \in {"deploy", "undeploy"} |-> <<>>]]

IdleCallback == [pc |-> "idle", provider |-> Null, code |-> Null,
                 state |-> Null, ext |-> Null, found |-> FALSE,
                 userId |-> Null, refused |-> FALSE,
                 status |-> 0, result |-> "none", requests |-> 0,
                 home |-> FALSE]

Init ==
    /\ sessionStorage \in [oauth_state : StoredStates,
                           oauth_code_verifier : Verifiers]
    /\ localStorage = Null
    /\ location = "/login"
    /\ flow = [f \in Flows |-> IdleFlow]
    /\ net = [f \in Flows |-> NoMsg]
    /\ call = [c \in Calls |-> IdleCall]
    /\ users = {}
    /\ sessions = {}
    /\ issued = 0
    /\ revoked = {}
    /\ createdBy = [f \in Flows |-> {}]
    /\ errorShown = [f \in Flows |-> FALSE]
    /\ oauth_accounts = {}
    /\ cb = [k \in Callbacks |-> IdleCallback]
    /\ stack = IdleStack

\* ------------------------------------------------- BaseService (token variant)
\* a wrapper that sets the header whatever auth is
WrapperAuthorizationAlways(initAuthz, auth, token) ==
    IF ~Falsy(token) THEN Str(token) ELSE initAuthz

\* the Authorization header of the dispatched request: `Bearer ${token}` set
\* over whatever the caller passed when auth && token
WrapperAuthorization(initAuthz, auth, token) ==
    IF auth /\ ~Falsy(token) THEN Str(token) ELSE initAuthz

\* baseFetch(input, { ...init, headers }): the caller's init with the headers
\* rebuilt, Authorization set when auth && token
WrapperInit(init, auth, token) ==
    [init EXCEPT !.authz = WrapperAuthorization(init.authz, auth, token)]

\* a wrapper that forces the logout on the 401 of any call
ForcedLogoutAny401(auth, status) == status = 401

\* if (auth && response.status === 401)
ForcedLogout(auth, status) == auth /\ status = 401

\* a wrapper that removes the token only if it is still the one the answered
\* call had read
WrapperStorageOwnToken(auth, status, ls) ==
    IF auth /\ status = 401
          /\ \A c \in DOMAIN call :
                call[c].pc = "answered" => call[c].hadToken = ls
    THEN Null ELSE ls

\* a wrapper that removes the token on the 401 of any call
WrapperStorageAny401(auth, status, ls) == IF status = 401 THEN Null ELSE ls

\* a wrapper that redirects and keeps the token
WrapperKeepsToken(auth, status, ls) == ls

\* localStorage.removeItem('sessionToken') when the logout is forced
WrapperStorage(auth, status, ls) ==
    IF ForcedLogout(auth, status) THEN Null ELSE ls

\* goto('/login') when the logout is forced
WrapperLocation(auth, status, loc) ==
    IF ForcedLogout(auth, status) THEN "/login" ELSE loc

\* response.ok
Ok(status) == status >= 200 /\ status <= 299


\* a wrapper that dispatches a failed request a second time
WrapperRetriesOnce(status, requests) == ~Ok(status) /\ requests < 2

\* the wrapper awaits baseFetch once and returns its response, or lets its
\* rejection through: there is no loop and no catch around the dispatch
WrapperRetries(status, requests) == FALSE

\* the request a service method hands to the wrapper, as dispatched
Request(kind, arg, initAuthz, auth) ==
    [kind |-> kind, arg |-> arg,
     authz |-> WrapperAuthorization(initAuthz, auth, localStorage),
     st |-> "pending", status |-> 0, body |-> Null]

Answer(msg, status, body) ==
    [msg EXCEPT !.st = "answered", !.status = status, !.body = body]

\* --------------------------------------- login/google/callback/+page.svelte
\* storedState === null || codeVerifier === null || code === null || state === null
MissingData(storedState, codeVerifier, code, state) ==
    storedState = Null \/ codeVerifier = Null \/ code = Null \/ state = Null

\* a page that never compares the two states
StateMismatchNever(storedState, state) == FALSE

\* storedState !== state
StateMismatch(storedState, state) == storedState # state

\* what a step of the flow was answered with
Heard(fl, kind, status, body) ==
    [fl EXCEPT !.resp = Append(@, <<kind, status, body>>)]

\* return new Response(.., { status }) or a thrown error: the flow is over
Abort(fl, result, step) ==
    [fl EXCEPT !.pc = "done", !.result = result, !.failedAt = step]

\* a flow is in flight from the run of the effect to the return or throw of
\* validateAuthorizationCode
InFlight(f) == flow[f].pc \notin {"idle", "done"}

\* a page that removes the two items once it has read them
StorageConsumed(store) ==
    [oauth_state |-> Null, oauth_code_verifier |-> Null]

\* sessionStorage after the effect's two getItem calls: the page has no
\* setItem or removeItem on it
StorageAfterRead(store) == store

\* the $effect runs: the storage reads, the two checks, then the code exchange
RunEffect(f, code, state) ==
    /\ flow[f].pc = "idle"
    /\ IF f = 1 THEN TRUE ELSE flow[f - 1].pc # "idle"
    /\ LET storedState == sessionStorage.oauth_state
           codeVerifier == sessionStorage.oauth_code_verifier
           fl == [flow[f] EXCEPT !.storedState = storedState,
                                 !.codeVerifier = codeVerifier,
                                 !.code = code, !.state = state,
                                 !.steps = Append(@, "validate"),
                                 !.completedBefore =
                                    Cardinality({g \in DOMAIN flow :
                                                   flow[g].result = "ok"})]
       IN IF MissingData(storedState, codeVerifier, code, state)
                \/ StateMismatch(storedState, state)
          THEN /\ flow' = [flow EXCEPT ![f] = Abort(fl, "r400", "state")]
               /\ UNCHANGED net
          ELSE /\ flow' = [flow EXCEPT ![f] =
                             [fl EXCEPT !.pc = "exchange",
                                        !.calls = Append(@, "exchange"),
                                        !.steps = Append(@, "exchange")]]
               /\ net' = [net EXCEPT ![f] =
                             [NoMsg EXCEPT !.kind = "exchange", !.arg = code,
                                           !.st = "pending"]]
    /\ sessionStorage' = StorageAfterRead(sessionStorage)
    /\ UNCHANGED <<localStorage, location, call, users, sessions, issued,
                   revoked, createdBy, errorShown, stack, oauthVars>>

\* existingUser?.id ?? (await userService.createUser(googleId)).user?.id :
\* createUser is called when the lookup gave no id
\* a page that calls createUser whatever the lookup gave
NeedCreateAlways(existingId) == TRUE

NeedCreate(existingId) == existingId = Null

\* a page without the user id check
NoUserIdNever(userId) == FALSE

\* if (!userId)
NoUserId(userId) == Falsy(userId)

\* a page without the subject id check
NoSubjectNever(sub) == FALSE

\* const googleId = claims.sub ?? undefined; if (googleId === undefined)
NoSubject(sub) == sub = Null

\* google.validateAuthorizationCode returns or throws; decodeIdToken; the
\* sub check; then getUserIdFromGoogleId is dispatched
ExchangeReturns(f, ok, sub) ==
    /\ flow[f].pc = "exchange"
    /\ net[f].kind = "exchange"
    /\ IF ~ok
       THEN /\ flow' = [flow EXCEPT ![f] =
                          Abort(Heard(@, "exchange", 400, Null), "r400", "exchange")]
            /\ net' = [net EXCEPT ![f] = NoMsg]
       ELSE IF NoSubject(sub)
       THEN /\ flow' = [flow EXCEPT ![f] =
                          Abort([Heard(@, "exchange", 200, sub) EXCEPT
                                    !.steps = Append(@, "decode")],
                                "r400", "claims")]
            /\ net' = [net EXCEPT ![f] = NoMsg]
       ELSE /\ flow' = [flow EXCEPT ![f] =
                          [Heard(@, "exchange", 200, sub) EXCEPT
                              !.pc = "lookup", !.googleId = sub,
                              !.calls = Append(@, "lookup"),
                              !.steps = @ \o <<"decode", "lookup">>]]
            /\ net' = [net EXCEPT ![f] = Request("lookup", sub, NoHeader, FALSE)]
    /\ UNCHANGED <<browserVars, call, users, sessions, issued, revoked,
                   createdBy, errorShown, stack, oauthVars>>

\* createSession(userId) is dispatched, unless the user id is missing
ToSession(fl, userId, step) ==
    IF NoUserId(userId)
    THEN Abort([fl EXCEPT !.userId = userId], "r500", step)
    ELSE [fl EXCEPT !.pc = "session", !.userId = userId,
                    !.calls = Append(@, "session"),
                    !.steps = Append(@, "session")]

\* a getUserIdFromGoogleId that never throws
LookupThrowsNever(status) == FALSE

\* getUserIdFromGoogleId: not a 404, and !response.ok
LookupThrows(status) == status # 404 /\ ~Ok(status)

\* getUserIdFromGoogleId returns (undefined for a 404) or throws
LookupReturns(f) ==
    /\ flow[f].pc = "lookup"
    /\ net[f].st = "answered"
    /\ LET status == net[f].status
           existingId == IF Ok(status) THEN net[f].body ELSE Null
           heard == Heard(flow[f], "lookup", status, net[f].body)
       IN /\ localStorage' = WrapperStorage(FALSE, status, localStorage)
          /\ location' = WrapperLocation(FALSE, status, location)
          /\ IF LookupThrows(status)
             THEN /\ flow' = [flow EXCEPT ![f] = Abort(heard, "threw", "lookup")]
                  /\ net' = [net EXCEPT ![f] = NoMsg]
             ELSE IF NeedCreate(existingId)
             THEN /\ flow' = [flow EXCEPT ![f] =
                                [heard EXCEPT !.pc = "create",
                                          !.existing = "absent",
                                          !.calls = Append(@, "create"),
                                          !.steps = Append(@, "create")]]
                  /\ net' = [net EXCEPT ![f] =
                                Request("create", flow[f].googleId, NoHeader, FALSE)]
             ELSE LET fl == ToSession([heard EXCEPT !.existing = "found"],
                                      existingId, "userId")
                  IN /\ flow' = [flow EXCEPT ![f] = fl]
                     /\ net' = [net EXCEPT ![f] =
                                   IF fl.pc = "session"
                                   THEN Request("session", existingId, NoHeader, FALSE)
                                   ELSE NoMsg]
    /\ UNCHANGED <<sessionStorage, call, users, sessions, issued, revoked,
                   createdBy, errorShown, stack, oauthVars>>

\* createUser returns or throws; the user id check; createSession dispatched
CreateReturns(f) ==
    /\ flow[f].pc = "create"
    /\ net[f].st = "answered"
    /\ LET status == net[f].status
           heard == Heard(flow[f], "create", status, net[f].body)
       IN /\ localStorage' = WrapperStorage(FALSE, status, localStorage)
          /\ location' = WrapperLocation(FALSE, status, location)
          /\ IF ~Ok(status)
             THEN /\ flow' = [flow EXCEPT ![f] = Abort(heard, "threw", "create")]
                  /\ net' = [net EXCEPT ![f] = NoMsg]
             ELSE LET fl == ToSession(heard, net[f].body, "userId")
                  IN /\ flow' = [flow EXCEPT ![f] = fl]
                     /\ net' = [net EXCEPT ![f] =
                                   IF fl.pc = "session"
                                   THEN Request("session", net[f].body, NoHeader, FALSE)
                                   ELSE NoMsg]
    /\ UNCHANGED <<sessionStorage, call, users, sessions, issued, revoked,
                   createdBy, errorShown, stack, oauthVars>>

\* a page that navigates without storing the token
FinishWithoutStore(fl, token) ==
    [fl EXCEPT !.pc = "done", !.token = token, !.result = "ok", !.home = TRUE,
               !.steps = Append(@, "goto")]

\* a page that navigates before it stores the token
FinishNavigatesFirst(fl, token) ==
    [fl EXCEPT !.pc = "done", !.token = token, !.result = "ok",
               !.wrote = token, !.home = TRUE,
               !.steps = @ \o <<"goto", "store">>]

\* localStorage.setItem('sessionToken', session.token); goto('/')
Finish(fl, token) ==
    [fl EXCEPT !.pc = "done", !.token = token, !.result = "ok",
               !.wrote = token, !.home = TRUE,
               !.steps = @ \o <<"store", "goto">>]

\* a page that deletes the user it created when the session fails
UsersRolledBack(rows, created) == {u \in rows : u.id \notin created}

\* the users table after the flow failed at the session: the page returns or
\* throws and makes no further call, so the rows are what they were
UsersAfterFailure(rows, created) == rows

\* a page that stores whatever createSession returned
NoTokenNever(token) == FALSE

\* if (!session.token)
NoToken(token) == Falsy(token)

\* createSession returns or throws; the token check; the token is stored
SessionReturns(f) ==
    /\ flow[f].pc = "session"
    /\ net[f].st = "answered"
    /\ LET status == net[f].status
           token == net[f].body
           heard == Heard(flow[f], "session", status, token)
       IN IF ~Ok(status)
          THEN /\ flow' = [flow EXCEPT ![f] = Abort(heard, "threw", "session")]
               /\ localStorage' = WrapperStorage(FALSE, status, localStorage)
               /\ location' = WrapperLocation(FALSE, status, location)
               /\ users' = UsersAfterFailure(users, createdBy[f])
          ELSE IF NoToken(token)
          THEN /\ flow' = [flow EXCEPT ![f] = Abort(heard, "r500", "token")]
               /\ users' = UsersAfterFailure(users, createdBy[f])
               /\ UNCHANGED <<localStorage, location>>
          ELSE /\ flow' = [flow EXCEPT ![f] = Finish(heard, token)]
               /\ localStorage' = IF flow'[f].wrote = Null THEN localStorage
                                  ELSE flow'[f].wrote
               /\ location' = "/"
               /\ UNCHANGED users
    /\ net' = [net EXCEPT ![f] = NoMsg]
    /\ UNCHANGED <<sessionStorage, call, sessions, issued, revoked,
                   createdBy, errorShown, stack, oauthVars>>


\* ------------------------------------------------------------ the backend
\* GET /user/google/{google_id}: the id of a user with that google_id, or 404
BackendLookup(f) ==
    /\ net[f].st = "pending"
    /\ net[f].kind = "lookup"
    /\ \/ \E s \in ErrStatuses : net' = [net EXCEPT ![f] = Answer(@, s, Null)]
       \/ \E u \in users :
            /\ u.google_id = net[f].arg
            /\ net' = [net EXCEPT ![f] = Answer(@, 200, u.id)]
       \/ /\ \A u \in users : u.google_id # net[f].arg
          /\ net' = [net EXCEPT ![f] = Answer(@, 404, Null)]
    /\ UNCHANGED <<browserVars, flow, call, users, sessions, issued, revoked,
                   createdBy, errorShown, stack, oauthVars>>

\* a POST /user that gives the fresh id to the rows of the same google_id
UpsertUser(rows, id, googleId) ==
    {u \in rows : u.google_id # googleId}
        \cup {[id |-> id, google_id |-> googleId]}

\* the row INSERTed into users: a fresh id, the google_id of the request
InsertUser(rows, id, googleId) ==
    rows \cup {[id |-> id, google_id |-> googleId]}

\* POST /user: one row more in users, with the google_id of the request; the
\* body carries the user, or lacks it
BackendCreateUser(f) ==
    /\ net[f].st = "pending"
    /\ net[f].kind = "create"
    /\ \/ /\ \E s \in ErrStatuses : net' = [net EXCEPT ![f] = Answer(@, s, Null)]
          /\ UNCHANGED <<users, createdBy>>
       \/ /\ Cardinality(users) < MaxUsers
          /\ LET id == UserId(Cardinality(users) + 1)
             IN /\ users' = InsertUser(users, id, net[f].arg)
                /\ createdBy' = [createdBy EXCEPT ![f] = @ \cup {id}]
                /\ \E body \in {id, Null} :
                     net' = [net EXCEPT ![f] = Answer(@, 200, body)]
    /\ UNCHANGED <<browserVars, flow, call, sessions, issued, revoked,
                   errorShown, stack, oauthVars>>

\* POST /session: one row more in sessions, for the user_id of the request
\* (sessions.user_id references nothing: the column is NOT NULL and no more);
\* the body carries the token, or lacks it
BackendCreateSession(f) ==
    /\ net[f].st = "pending"
    /\ net[f].kind = "session"
    /\ \/ /\ \E s \in ErrStatuses : net' = [net EXCEPT ![f] = Answer(@, s, Null)]
          /\ UNCHANGED <<sessions, issued>>
       \/ /\ issued < MaxSessions
          /\ LET token == TokenOf(issued + 1)
             IN /\ sessions' = sessions \cup
                                 {SessionRow(issued + 1, net[f].arg)}
                /\ issued' = issued + 1
                /\ \E body \in {token, Null} :
                     net' = [net EXCEPT ![f] = Answer(@, 200, body)]
    /\ UNCHANGED <<browserVars, flow, call, users, revoked, createdBy,
                   errorShown, stack, oauthVars>>

\* the gateway authenticates a request by the session of its bearer token
SessionOf(authz) ==
    {s \in sessions : /\ s.id = TokenId(authz)
                      /\ s.secret_hash = Hash(TokenSecret(authz))}

Authenticates(authz) == SessionOf(authz) # {}

\* a DELETE /session that answers and leaves the row
DeleteNothing(authz) == sessions

\* DELETE /session removes the session the request was authenticated by
DeleteSessionRows(authz) == sessions \ SessionOf(authz)

\* the gateway answers 401 to a request it cannot authenticate and forwards
\* the others: GET /user/me, DELETE /session
BackendAuthenticated(c) ==
    /\ call[c].pc = "sent"
    /\ LET authz == call[c].authz
           seen == [call[c] EXCEPT !.pc = "answered",
                                   !.afterRevoke = authz \in revoked]
       IN IF ~Authenticates(authz)
          THEN /\ call' = [call EXCEPT ![c] = [seen EXCEPT !.status = 401]]
               /\ UNCHANGED <<sessions, revoked>>
          ELSE \/ /\ call' = [call EXCEPT ![c] = [seen EXCEPT !.status = 500]]
                  /\ UNCHANGED <<sessions, revoked>>
               \/ /\ call[c].op = "getCurrentUser"
                  /\ \E s \in SessionOf(authz) :
                       /\ IF \E u \in users : u.id = s.user_id
                          THEN call' = [call EXCEPT ![c] =
                                  [seen EXCEPT !.status = 200, !.body = s.user_id]]
                          ELSE call' = [call EXCEPT ![c] =
                                  [seen EXCEPT !.status = 404]]
                  /\ UNCHANGED <<sessions, revoked>>
               \/ /\ call[c].op = "deleteSession"
                  /\ sessions' = DeleteSessionRows(authz)
                  /\ revoked' = revoked \cup {authz}
                  /\ call' = [call EXCEPT ![c] = [seen EXCEPT !.status = 200]]
    /\ UNCHANGED <<browserVars, flow, net, users, issued, createdBy,
                   errorShown, stack, oauthVars>>

\* --------------------------------------------- routes/+page.ts and services
\* a page that loads the user whatever is stored
LoadRedirectsNever(token) == FALSE

\* token === null || token === ''
LoadRedirects(token) == token = Null \/ token = ""

\* the wrapper's part of a call: the token read at the call, the header set
Dispatch(c, op, initAuthz) ==
    [IdleCall EXCEPT !.op = op, !.pc = "sent", !.hadToken = localStorage,
                     !.requests = 1,
                     !.authz = WrapperAuthorization(initAuthz, TRUE, localStorage),
                     !.init = [NoInit EXCEPT !.authz = initAuthz],
                     !.sent = WrapperInit([NoInit EXCEPT !.authz = initAuthz],
                                          TRUE, localStorage)]

\* the guarded page loads: redirect(307, '/login') without a token, else
\* getCurrentUser, which sets `Bearer ${token}` itself before the wrapper
load(c) ==
    /\ call[c].pc = "idle"
    /\ IF c = 1 THEN TRUE ELSE call[c - 1].pc # "idle"
    /\ IF LoadRedirects(localStorage)
       THEN /\ call' = [call EXCEPT ![c] =
                          [IdleCall EXCEPT !.op = "load", !.pc = "returned",
                                           !.outcome = "redirect"]]
            /\ location' = "/login"
       ELSE /\ call' = [call EXCEPT ![c] =
                          Dispatch(c, "getCurrentUser", Str(localStorage))]
            /\ UNCHANGED location
    /\ UNCHANGED <<sessionStorage, localStorage, flow, net, users, sessions,
                   issued, revoked, createdBy, errorShown, stack, oauthVars>>

\* authService.deleteSession() is called
deleteSession(c) ==
    /\ call[c].pc = "idle"
    /\ IF c = 1 THEN TRUE ELSE call[c - 1].pc # "idle"
    /\ call' = [call EXCEPT ![c] = Dispatch(c, "deleteSession", NoHeader)]
    /\ UNCHANGED <<browserVars, flow, net, users, sessions, issued, revoked,
                   createdBy, errorShown, stack, oauthVars>>

\* a getCurrentUser that treats a 401 like a 404
GetCurrentUserSwallows401(status) ==
    IF status = 404 \/ status = 401 THEN "undefined"
    ELSE IF ~Ok(status) THEN "threw" ELSE "value"

\* getCurrentUser: undefined for a 404, HttpError(status) when !response.ok
GetCurrentUserOutcome(status) ==
    IF status = 404 THEN "undefined"
    ELSE IF ~Ok(status) THEN "threw" ELSE "value"

\* a getCurrentUser that throws when the body has no user
GetCurrentUserStrict(status, body) ==
    IF GetCurrentUserOutcome(status) = "value" /\ body = Null
    THEN "threw" ELSE GetCurrentUserOutcome(status)

\* getCurrentUser on a 2xx response: return data.user ?? undefined
GetCurrentUserReturn(status, body) ==
    IF GetCurrentUserOutcome(status) = "value" /\ body = Null
    THEN "undefined" ELSE GetCurrentUserOutcome(status)

\* deleteSession: Error when !response.ok
DeleteSessionOutcome(status) == IF ~Ok(status) THEN "threw" ELSE "void"

\* getUserIdFromGoogleId: undefined for a 404, Error when !response.ok
GetUserIdOutcome(status) ==
    IF status = 404 THEN "undefined"
    ELSE IF LookupThrows(status) THEN "threw" ELSE "value"

\* createUser: Error when !response.ok
CreateUserOutcome(status) == IF ~Ok(status) THEN "threw" ELSE "value"

\* what the service method makes of the response the wrapper returned
MethodOutcome(op, status) ==
    IF op = "getCurrentUser" THEN GetCurrentUserOutcome(status)
    ELSE IF op = "getUserIdFromGoogleId" THEN GetUserIdOutcome(status)
    ELSE IF op = "createUser" THEN CreateUserOutcome(status)
    ELSE DeleteSessionOutcome(status)

\* the request is dispatched once more
Redispatch(cl) ==
    [cl EXCEPT !.pc = "sent", !.status = 0, !.body = Null,
               !.requests = @ + 1]

\* the response arrives: the wrapper's 401 handling, then the method's own
CallReturns(c) ==
    /\ call[c].pc = "answered"
    /\ LET status == call[c].status
           outcome == IF call[c].op = "getCurrentUser"
                      THEN GetCurrentUserReturn(status, call[c].body)
                      ELSE MethodOutcome(call[c].op, status)
       IN IF WrapperRetries(status, call[c].requests)
          THEN /\ call' = [call EXCEPT ![c] = Redispatch(@)]
               /\ UNCHANGED <<localStorage, location>>
          ELSE
          /\ localStorage' = WrapperStorage(call[c].auth, status, localStorage)
          /\ location' = WrapperLocation(call[c].auth, status, location)
          /\ call' = [call EXCEPT ![c] =
                        [@ EXCEPT !.pc = "returned", !.outcome = outcome,
                                  !.value = IF outcome = "value"
                                            THEN call[c].body ELSE Null,
                                  !.errStatus =
                                     IF outcome = "threw"
                                          /\ call[c].op = "getCurrentUser"
                                     THEN status ELSE 0]]
    /\ UNCHANGED <<sessionStorage, flow, net, users, sessions, issued, revoked,
                   createdBy, errorShown, stack, oauthVars>>

\* baseFetch rejects (the network fails): the wrapper's await throws before
\* its 401 handling, and the service method's await throws with it
FetchRejects(c) ==
    /\ call[c].pc = "sent"
    /\ IF WrapperRetries(0, call[c].requests)
       THEN call' = [call EXCEPT ![c] = Redispatch(@)]
       ELSE call' = [call EXCEPT ![c] =
                       [@ EXCEPT !.pc = "returned", !.outcome = "rejected"]]
    /\ UNCHANGED <<browserVars, flow, net, users, sessions, issued, revoked,
                   createdBy, errorShown, stack, oauthVars>>

\* ------------------------------------------ the service methods, one by one
\* the calls of this.fetch in the service clients: the init each passes and
\* its auth argument (own: the method sets `Bearer ${token}` itself)
Methods ==
    { [name |-> "createUser", method |-> "POST",
       contentType |-> "application/json", own |-> FALSE, body |-> "json",
       auth |-> FALSE],
      [name |-> "getUserIdFromGoogleId", method |-> "GET",
       contentType |-> NoHeader, own |-> FALSE, body |-> Null,
       auth |-> FALSE],
      [name |-> "getCurrentUser", method |-> "GET",
       contentType |-> "application/json", own |-> FALSE, body |-> Null,
       auth |-> TRUE],
      [name |-> "getCurrentUser", method |-> "GET",
       contentType |-> "application/json", own |-> TRUE, body |-> Null,
       auth |-> TRUE],
      [name |-> "deleteSession", method |-> "DELETE",
       contentType |-> NoHeader, own |-> FALSE, body |-> Null,
       auth |-> TRUE] }

\* the RequestInit method m hands to this.fetch
MethodInit(m) ==
    [method |-> m.method, contentType |-> m.contentType,
     authz |-> IF m.own THEN Str(localStorage) ELSE NoHeader,
     body |-> m.body, credentials |-> NoHeader]

\* calls of service methods followed one by one through the wrapper
Fetches == {1, 2}

\* statuses an endpoint may answer with
Statuses == {200, 401, 404, 500}

\* a wrapper that reads the token once, when the service object is built
TokenAtConstruction(builtWith, stored) == builtWith

\* const token = localStorage.getItem('sessionToken') is the first statement
\* of the closure the constructor assigns: it runs at each call
TokenForCall(builtWith, stored) == stored

\* what was stored when the service object of call c was built: the object
\* is built for the call, was built before anything was stored, or is the
\* object of an earlier call
BuiltWith(c) ==
    {Null, localStorage} \cup {call[d].builtWith : d \in 1..(c - 1)}

\* a service method calls this.fetch(input, init, auth): the token is read,
\* the headers are built and the request is dispatched
fetch(c, m) ==
    /\ call[c].pc = "idle"
    /\ IF c = 1 THEN TRUE ELSE call[c - 1].pc # "idle"
    /\ \E builtWith \in BuiltWith(c) :
         LET token == TokenForCall(builtWith, localStorage)
             init == MethodInit(m)
             sent == WrapperInit(init, m.auth, token)
         IN call' = [call EXCEPT ![c] =
                       [IdleCall EXCEPT !.op = m.name, !.pc = "sent",
                                        !.auth = m.auth,
                                        !.hadToken = token,
                                        !.requests = 1,
                                        !.authz = sent.authz,
                                        !.init = init, !.sent = sent,
                                        !.builtWith = builtWith]]
    /\ UNCHANGED <<browserVars, flow, net, users, sessions, issued, revoked,
                   createdBy, errorShown, stack, oauthVars>>

\* the bodies a response of that status may carry: a 2xx one has the
\* entity asked for, or lacks it
Bodies(status) == IF Ok(status) THEN {Null, UserId(1)} ELSE {Null}

\* the endpoint answers the request
Responds(c, status) ==
    /\ call[c].pc = "sent"
    /\ \E body \in Bodies(status) :
          call' = [call EXCEPT ![c] = [@ EXCEPT !.pc = "answered",
                                               !.status = status,
                                               !.body = body]]
    /\ UNCHANGED <<browserVars, flow, net, users, sessions, issued, revoked,
                   createdBy, errorShown, stack, oauthVars>>

\* ------------------------------------------- BaseService (cookie variant)
\* a wrapper that leaves the caller's credentials as they are
CookieWrapperKeepsCredentials(init) == init

\* baseFetch(input, { ...init, headers, credentials: 'include' })
CookieWrapperInit(init) == [init EXCEPT !.credentials = "include"]

\* BaseService, cookie variant: if (response.status === 401) goto('/login')
CookieWrapperLocation(status, loc) == IF status = 401 THEN "/login" ELSE loc

\* the wrapper has no statement on localStorage
CookieWrapperStorage(status, ls) == ls

\* the calls of this.fetch in the AuthService built on the cookie variant
CookieMethods ==
    { [name |-> "createSession", method |-> "POST",
       contentType |-> "application/json", body |-> "json"],
      [name |-> "deleteSession", method |-> "DELETE",
       contentType |-> NoHeader, body |-> Null],
      [name |-> "startGoogleLogin", method |-> "GET",
       contentType |-> NoHeader, body |-> Null],
      [name |-> "handleGoogleCallback", method |-> "GET",
       contentType |-> NoHeader, body |-> Null] }

\* values of RequestInit.credentials a caller may pass, NoHeader for none
Credentials == {NoHeader, "omit", "include"}

\* a service method calls this.fetch(input, init) of the cookie variant
cookieFetch(c, m, credentials) ==
    /\ call[c].pc = "idle"
    /\ IF c = 1 THEN TRUE ELSE call[c - 1].pc # "idle"
    /\ LET init == [method |-> m.method, contentType |-> m.contentType,
                    authz |-> NoHeader, body |-> m.body,
                    credentials |-> credentials]
           sent == CookieWrapperInit(init)
       IN call' = [call EXCEPT ![c] =
                     [IdleCall EXCEPT !.op = m.name, !.pc = "sent",
                                      !.requests = 1,
                                      !.authz = sent.authz,
                                      !.init = init, !.sent = sent]]
    /\ UNCHANGED <<browserVars, flow, net, users, sessions, issued, revoked,
                   createdBy, errorShown, stack, oauthVars>>

\* the response arrives at the cookie variant: goto('/login') on a 401,
\* then the method's own handling
CookieCallReturns(c) ==
    /\ call[c].pc = "answered"
    /\ LET status == call[c].status
       IN /\ localStorage' = CookieWrapperStorage(status, localStorage)
          /\ location' = CookieWrapperLocation(status, location)
          /\ call' = [call EXCEPT ![c] =
                        [@ EXCEPT !.pc = "returned",
                                  !.outcome = MethodOutcome(call[c].op, status)]]
    /\ UNCHANGED <<sessionStorage, flow, net, users, sessions, issued, revoked,
                   createdBy, errorShown, stack, oauthVars>>

\* --------------------------- login/[provider]/callback: page and backend
Providers == {"google", "github"}
\* providers a callback URL may name
UrlProviders == Providers \cup {"gitlab"}


\* a page that hands any provider to the backend
UnsupportedProviderNever(provider) == FALSE

\* provider != 'google' && provider != 'github'
UnsupportedProvider(provider) == provider \notin Providers

\* the $effect of the provider-generic page runs: the provider check, the
\* code and state check, then handleOauthCallback
RunOauthEffect(k, provider, code, state) ==
    /\ cb[k].pc = "idle"
    /\ IF k = 1 THEN TRUE ELSE cb[k - 1].pc # "idle"
    /\ LET c0 == [cb[k] EXCEPT !.provider = provider, !.code = code,
                               !.state = state]
       IN IF UnsupportedProvider(provider) \/ code = Null \/ state = Null
          THEN cb' = [cb EXCEPT ![k] = [c0 EXCEPT !.pc = "done",
                                                  !.result = "r400"]]
          ELSE cb' = [cb EXCEPT ![k] = [c0 EXCEPT !.pc = "sent",
                                                  !.requests = @ + 1]]
    /\ UNCHANGED <<tokenBuildVars, users, oauth_accounts>>

\* a table without the UNIQUE constraint
DuplicateNever(ext) == FALSE

\* external_user_id TEXT NOT NULL UNIQUE: the insert of a row whose
\* external_user_id is already in the table fails
Duplicate(ext) == \E a \in oauth_accounts : a.external_user_id = ext

\* the handler exchanges the code and looks the account up by
\* (provider, external user id)
OauthLookup(k, ok, ext) ==
    /\ cb[k].pc = "sent"
    /\ IF ~ok
       THEN cb' = [cb EXCEPT ![k] = [@ EXCEPT !.pc = "answered",
                                              !.status = 500]]
       ELSE IF \E a \in oauth_accounts :
                   a.provider = cb[k].provider /\ a.external_user_id = ext
       THEN \E a \in oauth_accounts :
               /\ a.provider = cb[k].provider
               /\ a.external_user_id = ext
               /\ cb' = [cb EXCEPT ![k] = [@ EXCEPT !.pc = "resolved",
                                                    !.ext = ext,
                                                    !.found = TRUE,
                                                    !.userId = a.user_id]]
       ELSE cb' = [cb EXCEPT ![k] = [@ EXCEPT !.pc = "looked", !.ext = ext]]
    /\ UNCHANGED <<tokenBuildVars, users, oauth_accounts>>

\* no account was found: the handler creates a User and the linked OAuth
\* Account, unless the table refuses the row
OauthInsert(k) ==
    /\ cb[k].pc = "looked"
    /\ IF Duplicate(cb[k].ext) \/ Cardinality(users) >= MaxUsers
       THEN /\ cb' = [cb EXCEPT ![k] = [@ EXCEPT !.pc = "answered",
                                                 !.refused = Duplicate(cb[k].ext),
                                                 !.status = 500]]
            /\ UNCHANGED <<users, oauth_accounts>>
       ELSE LET id == UserId(Cardinality(users) + 1)
            IN /\ users' = users \cup {[id |-> id, google_id |-> Null]}
               /\ oauth_accounts' = oauth_accounts \cup
                    {[provider |-> cb[k].provider,
                      external_user_id |-> cb[k].ext, user_id |-> id]}
               /\ cb' = [cb EXCEPT ![k] = [@ EXCEPT !.pc = "resolved",
                                                    !.userId = id]]
    /\ UNCHANGED tokenBuildVars

\* the handler creates a Session for the resolved User and answers
OauthSession(k) ==
    /\ cb[k].pc = "resolved"
    /\ IF issued >= MaxSessions
       THEN /\ cb' = [cb EXCEPT ![k] = [@ EXCEPT !.pc = "answered",
                                                 !.status = 500]]
            /\ UNCHANGED <<sessions, issued>>
       ELSE /\ sessions' = sessions \cup
                 {SessionRow(issued + 1, cb[k].userId)}
            /\ issued' = issued + 1
            /\ cb' = [cb EXCEPT ![k] = [@ EXCEPT !.pc = "answered",
                                                 !.status = 200]]
    /\ UNCHANGED <<browserVars, flow, net, call, users, revoked, createdBy,
                   errorShown, stack, oauth_accounts>>

\* the response arrives: the wrapper's 401 handling; handleOauthCallback
\* returns or throws; goto('/')
OauthReturns(k) ==
    /\ cb[k].pc = "answered"
    /\ IF Ok(cb[k].status)
       THEN /\ cb' = [cb EXCEPT ![k] = [@ EXCEPT !.pc = "done",
                                                 !.result = "ok",
                                                 !.home = TRUE]]
            /\ location' = "/"
       ELSE /\ cb' = [cb EXCEPT ![k] = [@ EXCEPT !.pc = "done",
                                                 !.result = "threw"]]
            /\ location' = CookieWrapperLocation(cb[k].status, location)
    /\ UNCHANGED <<sessionStorage, localStorage, flow, net, call, users,
                   sessions, issued, revoked, createdBy, errorShown, stack,
                   oauth_accounts>>

NextOauth ==
    \/ \E k \in Callbacks, provider \in UrlProviders, code \in Codes,
          state \in {Null, "abc"} : RunOauthEffect(k, provider, code, state)
    \/ \E k \in Callbacks, ok \in BOOLEAN, ext \in Subjects :
          OauthLookup(k, ok, ext)
    \/ \E k \in Callbacks : OauthInsert(k)
    \/ \E k \in Callbacks : OauthSession(k)
    \/ \E k \in Callbacks : OauthReturns(k)

SpecOauth == Init /\ [][NextOauth]_vars

\* ------------------------------------------- scripts: deploy and undeploy
\* scripts/deploy.sh: the commands below set -e, in the order of the file
DeployScript ==
    << [cmd |-> "up", target |-> "db"],
       [cmd |-> "sleep", target |-> Null],
       [cmd |-> "up", target |-> "services"],
       [cmd |-> "up", target |-> "jaeger"] >>

\* scripts/undeploy.sh: the commands below set -e, in the order of the file
UndeployScript ==
    << [cmd |-> "down", target |-> "jaeger"],
       [cmd |-> "down", target |-> "services"],
       [cmd |-> "down", target |-> "db"] >>

Scripts == {"deploy", "undeploy"}

CommandsOf(name) == IF name = "deploy" THEN DeployScript ELSE UndeployScript

\* a command returns zero, or it fails
ExitCodes == {0, 1}

\* a script without set -e runs on after a failing command
ErrexitOff(exit) == FALSE

\* set -e: the shell exits as soon as a command returns non-zero
Errexit(exit) == exit # 0

\* the stacks that can be up after a command: docker-compose up -d and down
\* that return zero did their work, one that fails may have done it or not
Effect(command, exit, up) ==
    IF command.cmd = "sleep" THEN {up}
    ELSE LET done == IF command.cmd = "up"
                     THEN up \cup {command.target}
                     ELSE up \ {command.target}
         IN IF exit = 0 THEN {done} ELSE {up, done}

\* the recipes deploy and undeploy of the justfile start the script
just(name) ==
    /\ ~stack.running
    /\ stack.runs < MaxRuns
    /\ stack' = [stack EXCEPT !.running = TRUE, !.name = name, !.pc = 1,
                              !.status = 0, !.runs = @ + 1,
                              !.trace[name] = <<>>]
    /\ UNCHANGED <<browserVars, flow, net, call, users, sessions, issued,
                   revoked, createdBy, errorShown, oauthVars>>

\* the shell runs the next command of the script
RunCommand(exit) ==
    /\ stack.running
    /\ stack.pc <= Len(CommandsOf(stack.name))
    /\ LET command == CommandsOf(stack.name)[stack.pc]
           ran == [cmd |-> command.cmd, target |-> command.target,
                   exit |-> exit]
       IN \E up \in Effect(command, exit, stack.up) :
            stack' = [stack EXCEPT
                        !.up = up,
                        !.trace[stack.name] = Append(@, ran),
                        !.running = ~Errexit(exit),
                        !.status = IF Errexit(exit) THEN exit ELSE 0,
                        !.pc = IF Errexit(exit) THEN @ ELSE @ + 1]
    /\ UNCHANGED <<browserVars, flow, net, call, users, sessions, issued,
                   revoked, createdBy, errorShown, oauthVars>>

\* the last command was run: the script ends with the status of its echo
ScriptEnds ==
    /\ stack.running
    /\ stack.pc > Len(CommandsOf(stack.name))
    /\ stack' = [stack EXCEPT !.running = FALSE, !.status = 0]
    /\ UNCHANGED <<browserVars, flow, net, call, users, sessions, issued,
                   revoked, createdBy, errorShown, oauthVars>>

\* ------------------------------------------------------------ specification
\* the callback flows and the backend calls they make, interleaved freely
Next ==
    \/ \E f \in Flows, code \in Codes, state \in States : RunEffect(f, code, state)
    \/ \E f \in Flows, ok \in BOOLEAN, sub \in Subjects \cup {Null} :
          ExchangeReturns(f, ok, sub)
    \/ \E f \in Flows : BackendLookup(f)
    \/ \E f \in Flows : LookupReturns(f)
    \/ \E f \in Flows : BackendCreateUser(f)
    \/ \E f \in Flows : CreateReturns(f)
    \/ \E f \in Flows : BackendCreateSession(f)
    \/ \E f \in Flows : SessionReturns(f)

Spec == Init /\ [][Next]_vars

\* the flow of one login
Login == {1}

\* one login, and the calls the guarded page and the logout make through the
\* wrapper before, during and after it
NextSession ==
    \/ \E f \in Login, code \in Codes, state \in States : RunEffect(f, code, state)
    \/ \E f \in Login, ok \in BOOLEAN, sub \in Subjects \cup {Null} :
          ExchangeReturns(f, ok, sub)
    \/ \E f \in Login : BackendLookup(f)
    \/ \E f \in Login : LookupReturns(f)
    \/ \E f \in Login : BackendCreateUser(f)
    \/ \E f \in Login : CreateReturns(f)
    \/ \E f \in Login : BackendCreateSession(f)
    \/ \E f \in Login : SessionReturns(f)
    \/ \E c \in Calls : load(c)
    \/ \E c \in Calls : deleteSession(c)
    \/ \E c \in Calls : BackendAuthenticated(c)
    \/ \E c \in Calls : FetchRejects(c)
    \/ \E c \in Calls : CallReturns(c)

SpecSession == Init /\ [][NextSession]_vars

\* one login, and service methods called through the wrapper before, during
\* and after it, each answered with any status
NextFetch ==
    \/ \E f \in Login, code \in Codes, state \in States : RunEffect(f, code, state)
    \/ \E f \in Login, ok \in BOOLEAN, sub \in Subjects \cup {Null} :
          ExchangeReturns(f, ok, sub)
    \/ \E f \in Login : BackendLookup(f)
    \/ \E f \in Login : LookupReturns(f)
    \/ \E f \in Login : BackendCreateUser(f)
    \/ \E f \in Login : CreateReturns(f)
    \/ \E f \in Login : BackendCreateSession(f)
    \/ \E f \in Login : SessionReturns(f)
    \/ \E c \in Fetches, m \in Methods : fetch(c, m)
    \/ \E c \in Fetches, status \in Statuses : Responds(c, status)
    \/ \E c \in Fetches : CallReturns(c)

SpecFetch == Init /\ [][NextFetch]_vars

\* two logins, one after or during the other
Relogin == {1, 2}
\* the one call followed across them
Across == {1}

\* a service method called through the token variant while two logins store
\* their tokens
NextRelogin ==
    \/ \E f \in Relogin, code \in Codes, state \in States : RunEffect(f, code, state)
    \/ \E f \in Relogin, ok \in BOOLEAN, sub \in Subjects \cup {Null} :
          ExchangeReturns(f, ok, sub)
    \/ \E f \in Relogin : BackendLookup(f)
    \/ \E f \in Relogin : LookupReturns(f)
    \/ \E f \in Relogin : BackendCreateUser(f)
    \/ \E f \in Relogin : CreateReturns(f)
    \/ \E f \in Relogin : BackendCreateSession(f)
    \/ \E f \in Relogin : SessionReturns(f)
    \/ \E c \in Across, m \in Methods : fetch(c, m)
    \/ \E c \in Across, status \in Statuses : Responds(c, status)
    \/ \E c \in Across : CallReturns(c)

SpecRelogin == Init /\ [][NextRelogin]_vars

\* one login that leaves a token in localStorage, and service methods called
\* through the cookie variant of the wrapper
NextCookie ==
    \/ \E f \in Login, code \in Codes, state \in States : RunEffect(f, code, state)
    \/ \E f \in Login, ok \in BOOLEAN, sub \in Subjects \cup {Null} :
          ExchangeReturns(f, ok, sub)
    \/ \E f \in Login : BackendLookup(f)
    \/ \E f \in Login : LookupReturns(f)
    \/ \E f \in Login : BackendCreateUser(f)
    \/ \E f \in Login : CreateReturns(f)
    \/ \E f \in Login : BackendCreateSession(f)
    \/ \E f \in Login : SessionReturns(f)
    \/ \E c \in Fetches, m \in CookieMethods, credentials \in Credentials :
          cookieFetch(c, m, credentials)
    \/ \E c \in Fetches, status \in Statuses : Responds(c, status)
    \/ \E c \in Fetches : CookieCallReturns(c)

SpecCookie == Init /\ [][NextCookie]_vars

\* just deploy and just undeploy, run one after the other in any order, each
\* command of a script returning zero or failing
NextDeploy ==
    \/ \E name \in Scripts : just(name)
    \/ \E exit \in ExitCodes : RunCommand(exit)
    \/ ScriptEnds

SpecDeploy == Init /\ [][NextDeploy]_vars

\* ------------------------------------------------------------------ claims
Count(seq, x) == Cardinality({i \in DOMAIN seq : seq[i] = x})

\* what flow f was answered at the step `kind`, if it was
Answers(f, kind) ==
    {flow[f].resp[i] : i \in {j \in DOMAIN flow[f].resp : flow[f].resp[j][1] = kind}}

Started(f) == flow[f].pc # "idle"

\* one of the four values is missing, or the returned state is not the stored one
BadCallback(f) ==
    \/ flow[f].storedState = Null
    \/ flow[f].codeVerifier = Null
    \/ flow[f].code = Null
    \/ flow[f].state = Null
    \/ flow[f].storedState # flow[f].state

\* C1: a flow whose stored state, code verifier, code or state is missing, or
\* whose returned state differs from the stored one, has ended with a status
\* 400 response and has made no provider or backend call: nothing exchanged,
\* looked up, created or awaited.
C1_AbortsBeforeAnyCall ==
    \A f \in Flows :
        Started(f) /\ BadCallback(f) =>
            /\ flow[f].pc = "done"
            /\ flow[f].result = "r400"
            /\ flow[f].calls = <<>>
            /\ flow[f].resp = <<>>
            /\ net[f] = NoMsg
            /\ createdBy[f] = {}

\* a flow that was handed state "def" against the stored "abc" and was aborted
C1_Witness ==
    \E f \in Flows :
        /\ flow[f].storedState = "abc"
        /\ flow[f].codeVerifier = "ver"
        /\ flow[f].code = "xyz"
        /\ flow[f].state = "def"
        /\ flow[f].result = "r400"

\* C2 (as claimed): a flow whose state and code are present and whose state
\* equals the stored one, with a stored verifier, ends with a session token
\* stored under 'sessionToken'.
C2_ValidCallbackStoresToken ==
    \A f \in Flows :
        flow[f].pc = "done" /\ ~BadCallback(f) => flow[f].wrote # Null

\* every step of flow f was answered with success: the exchange gave a subject
\* id, the lookup a user id or a 404 followed by a created user with an id,
\* and the session creation a token
EveryStepSucceeded(f) ==
    /\ \E a \in Answers(f, "exchange") : a[2] = 200 /\ a[3] # Null
    /\ \/ \E a \in Answers(f, "lookup") : a[2] = 200
       \/ /\ \E a \in Answers(f, "lookup") : a[2] = 404
          /\ \E a \in Answers(f, "create") : Ok(a[2]) /\ a[3] # Null
    /\ \E a \in Answers(f, "session") : Ok(a[2]) /\ a[3] # Null

\* C2 (amended): a flow with a valid callback in which every step succeeded
\* has ended, has written the token createSession returned under
\* 'sessionToken', and has navigated to '/'.
C2_SuccessfulFlowStoresToken ==
    \A f \in Flows :
        ~BadCallback(f) /\ EveryStepSucceeded(f) =>
            /\ flow[f].pc = "done"
            /\ flow[f].result = "ok"
            /\ \E a \in Answers(f, "session") : flow[f].wrote = a[3]
            /\ flow[f].home

C2_Witness ==
    \E f \in Flows :
        /\ EveryStepSucceeded(f)
        /\ flow[f].wrote = TokenOf(1)
        /\ localStorage = TokenOf(1)
        /\ location = "/"

\* C3: a flow calls createUser at most once; when its lookup was answered 404
\* it calls createUser exactly once, and the createUser the backend carried
\* out has made exactly one user, linked to the subject id; when its lookup
\* was answered with an existing user it never calls createUser and no user
\* is created.
C3_CreateOnlyWhenAbsent ==
    \A f \in Flows :
        /\ Count(flow[f].calls, "create") <= 1
        /\ Cardinality(createdBy[f]) <= 1
        /\ (\E a \in Answers(f, "lookup") : a[2] = 404) =>
              /\ Count(flow[f].calls, "create") = 1
              /\ (\E a \in Answers(f, "create") : Ok(a[2])) =>
                    /\ Cardinality(createdBy[f]) = 1
                    /\ \A id \in createdBy[f] :
                          [id |-> id, google_id |-> flow[f].googleId] \in users
        /\ (\E a \in Answers(f, "lookup") : a[2] = 200) =>
              /\ Count(flow[f].calls, "create") = 0
              /\ createdBy[f] = {}

\* one flow created the user of a subject id and another flow found it
C3_Witness ==
    \E f, g \in Flows :
        /\ Cardinality(createdBy[f]) = 1
        /\ \E a \in Answers(g, "lookup") : a[2] = 200 /\ a[3] \in createdBy[f]
        /\ flow[g].pc = "done"
        /\ createdBy[g] = {}

C5_DeletedSessionNoLongerAuthenticates ==
    /\ \A t \in revoked : SessionOf(t) = {}
    /\ \A c \in Calls :
          call[c].pc \in {"answered", "returned"} /\ call[c].afterRevoke =>
              call[c].status = 401

\* a request that presented an already deleted session's token
C5_Witness ==
    \E c \in Calls :
        /\ call[c].afterRevoke
        /\ call[c].authz \in revoked
        /\ call[c].pc = "returned"
        /\ call[c].status = 401

\* C6: every row of sessions references exactly one row of users.
C6_SessionReferencesOneUser ==
    \A s \in sessions : Cardinality({u \in users : u.id = s.user_id}) = 1

\* a session exists, and a flow whose createUser answer carried no user id was
\* aborted without asking for a session
C6_Witness ==
    /\ sessions # {}
    /\ \E f \in Flows :
          /\ flow[f].failedAt = "userId"
          /\ Count(flow[f].calls, "session") = 0

\* C7: no two rows of oauth_accounts share (provider, external_user_id).
C7_OauthAccountUnique ==
    \A a, b \in oauth_accounts :
        a.provider = b.provider /\ a.external_user_id = b.external_user_id
            => a = b

\* two callbacks of one subject id both found no account; the second insert
\* was refused
C7_Witness ==
    \E k \in Callbacks :
        /\ cb[k].refused
        /\ \E a \in oauth_accounts :
              a.provider = cb[k].provider /\ a.external_user_id = cb[k].ext

\* C8 (as claimed): a flow that failed at any step stored no token, did not
\* navigate to '/', and showed the user an error.
C8_FailureShowsError ==
    \A f \in Flows :
        flow[f].pc = "done" /\ flow[f].result # "ok" =>
            /\ flow[f].wrote = Null
            /\ ~flow[f].home
            /\ errorShown[f]

\* C9 (as claimed): a 401 answer to an authenticated call is not surfaced as
\* an error to the caller of the service method.
C9_UnauthorizedNotSurfaced ==
    \A c \in Calls :
        call[c].pc = "returned" /\ call[c].auth /\ call[c].status = 401 =>
            call[c].outcome # "threw"

\* C9 (amended): a 401 answer to an authenticated call is handed back by the
\* wrapper, and the service method raises it like any other non-2xx answer:
\* getCurrentUser throws an HttpError of status 401, deleteSession an Error.
C9_UnauthorizedAlsoThrown ==
    \A c \in Calls :
        call[c].pc = "returned" /\ call[c].auth /\ call[c].status = 401 =>
            /\ call[c].outcome = "threw"
            /\ call[c].op = "getCurrentUser" => call[c].errStatus = 401

C9_Witness ==
    \E c \in Calls :
        /\ call[c].pc = "returned"
        /\ call[c].op = "getCurrentUser"
        /\ call[c].status = 401
        /\ call[c].errStatus = 401
        /\ localStorage = Null

\* C10 (as claimed): at most one callback flow is in flight at a time.
C10_OneFlowInFlight == Cardinality({f \in Flows : InFlight(f)}) <= 1

\* C11: a call of the wrapper has put its request on the wire exactly once,
\* whether it is still awaited, was answered with any status, or was rejected;
\* a callback flow has made each of its backend calls at most once.
C11_DispatchedExactlyOnce ==
    /\ \A c \in Calls :
          call[c].op \in {"getCurrentUser", "deleteSession"} =>
              call[c].requests = 1
    /\ \A f \in Flows : \A kind \in {"lookup", "create", "session"} :
          Count(flow[f].calls, kind) <= 1

\* one call answered 401, one answered 500 and one rejected, each returned
\* after a single dispatch
C11_Witness ==
    \E a, b, c \in Calls :
        /\ call[a].pc = "returned" /\ call[a].status = 401
        /\ call[b].pc = "returned" /\ call[b].status = 500
        /\ call[c].pc = "returned" /\ call[c].outcome = "rejected"
        /\ call[a].requests = 1 /\ call[b].requests = 1 /\ call[c].requests = 1

\* C12: a row of sessions holds the digest of its session's secret, and no
\* field of any row is the secret of a session or a session token.
C12_OnlyHashPersisted ==
    \A s \in sessions : \A n \in 1..MaxSessions :
        /\ s.id = SessionId(n) => s.secret_hash = Hash(Secret(n))
        /\ {s.id, s.secret_hash, s.user_id} \cap {Secret(n), TokenOf(n)} = {}

\* the browser holds the token of a session whose row holds the digest
C12_Witness ==
    /\ localStorage = TokenOf(1)
    /\ \E s \in sessions :
          s.id = SessionId(1) /\ s.secret_hash = "hash(k1)"

\* C13: no step changes or removes a row of users: a user keeps the id it
\* was created with (and its google_id), and ids are never shared.
C13_UserIdImmutable ==
    [][/\ \A u \in users : u \in users'
       /\ \A u, v \in users' : u.id = v.id => u = v]_vars

\* the first user is still there after a later creation and a completed login
C13_Witness ==
    /\ Cardinality(users) = 2
    /\ [id |-> UserId(1), google_id |-> "g1"] \in users
    /\ \E f \in Flows : flow[f].result = "ok" /\ flow[f].userId = UserId(1)

IsPrefix(p, q) ==
    /\ Len(p) <= Len(q)
    /\ \A i \in 1..Len(p) : p[i] = q[i]

\* the order of the steps of the page, with and without a creation
StepsFound ==
    <<"validate", "exchange", "decode", "lookup", "session", "store", "goto">>
StepsCreated ==
    <<"validate", "exchange", "decode", "lookup", "create", "session",
      "store", "goto">>

\* C14: the steps a flow has taken are an initial part of the order
\* validation, exchange, decoding, lookup, (creation,) session creation,
\* token storage, navigation; a creation follows a lookup answered 404;
\* createSession is called with a user id that the lookup or the creation
\* had returned; the token written is the one createSession had returned;
\* the navigation to '/' follows the write.
C14_StepsInOrder ==
    \A f \in Flows :
        /\ IsPrefix(flow[f].steps, StepsFound)
              \/ IsPrefix(flow[f].steps, StepsCreated)
        /\ Count(flow[f].steps, "create") = 1 =>
              \E a \in Answers(f, "lookup") : a[2] = 404
        /\ Count(flow[f].steps, "session") = 1 =>
              /\ flow[f].userId # Null
              /\ \/ \E a \in Answers(f, "lookup") :
                       a[2] = 200 /\ a[3] = flow[f].userId
                 \/ \E a \in Answers(f, "create") :
                       Ok(a[2]) /\ a[3] = flow[f].userId
        /\ flow[f].wrote # Null =>
              /\ Count(flow[f].steps, "store") = 1
              /\ \E a \in Answers(f, "session") :
                    Ok(a[2]) /\ a[3] # Null /\ a[3] = flow[f].wrote
        /\ flow[f].home => flow[f].wrote # Null

\* a flow that went through every step, the creation included
C14_Witness ==
    \E f \in Flows :
        /\ flow[f].steps = StepsCreated
        /\ flow[f].wrote = TokenOf(1)
        /\ location = "/"

\* an answer that makes its step fail: a failed exchange or one without a
\* subject id, a non-2xx answer other than the lookup's 404, a creation
\* without a user id, a session without a token
FailedAnswer(a) ==
    \/ a[1] = "exchange" /\ (a[2] # 200 \/ a[3] = Null)
    \/ a[1] = "lookup" /\ a[2] # 404 /\ ~Ok(a[2])
    \/ a[1] \in {"create", "session"} /\ (~Ok(a[2]) \/ a[3] = Null)

\* C15: a failing answer is the last thing a flow hears: the flow has ended
\* without success, awaits nothing, and has made no call after the one that
\* failed; no call is made twice; a flow whose lookup failed with a status
\* other than 404 has called neither createUser nor createSession.
C15_NoCallAfterFailure ==
    \A f \in Flows :
        /\ \A i \in DOMAIN flow[f].resp :
              FailedAnswer(flow[f].resp[i]) =>
                  /\ i = Len(flow[f].resp)
                  /\ flow[f].pc = "done"
                  /\ flow[f].result # "ok"
                  /\ net[f] = NoMsg
                  /\ Len(flow[f].calls) = i
                  /\ flow[f].calls[i] = flow[f].resp[i][1]
        /\ \A kind \in {"exchange", "lookup", "create", "session"} :
              Count(flow[f].calls, kind) <= 1
        /\ (\E a \in Answers(f, "lookup") : a[2] # 404 /\ ~Ok(a[2])) =>
              /\ Count(flow[f].calls, "create") = 0
              /\ Count(flow[f].calls, "session") = 0
              /\ createdBy[f] = {}

\* a flow whose lookup was answered 500 and that stopped there
C15_Witness ==
    \E f \in Flows :
        /\ \E a \in Answers(f, "lookup") : a[2] = 500
        /\ flow[f].pc = "done"
        /\ flow[f].result = "threw"
        /\ flow[f].calls = <<"exchange", "lookup">>

\* the session step of flow f failed: createSession threw, or returned no token
SessionFailed(f) ==
    /\ flow[f].pc = "done"
    /\ flow[f].failedAt \in {"session", "token"}

\* C16: a user that a flow created stays in users whatever becomes of the
\* flow; a flow that failed at the session has stored no token, has not
\* navigated, and has made no call besides the exchange, the lookup, the
\* creation and the session creation.
C16_NoRollback ==
    \A f \in Flows :
        /\ \A id \in createdBy[f] :
              [id |-> id, google_id |-> flow[f].googleId] \in users
        /\ SessionFailed(f) =>
              /\ flow[f].wrote = Null
              /\ ~flow[f].home
              /\ \A i \in DOMAIN flow[f].calls :
                    flow[f].calls[i] \in {"exchange", "lookup", "create", "session"}
              /\ flow[f].calls[Len(flow[f].calls)] = "session"

\* a flow created a user, its createSession failed, and the user is there
\* with no token stored
C16_Witness ==
    \E f \in Flows :
        /\ SessionFailed(f)
        /\ createdBy[f] = {UserId(1)}
        /\ [id |-> UserId(1), google_id |-> flow[f].googleId] \in users
        /\ localStorage = Null

\* C17: a flow whose code exchange failed, or whose identity token carried
\* no subject id, has ended with a status 400 response having made no call
\* but the exchange: no lookup, no creation, no session, no user created.
C17_ExchangeFailureAborts ==
    \A f \in Flows :
        (\E a \in Answers(f, "exchange") : a[2] # 200 \/ a[3] = Null) =>
            /\ flow[f].pc = "done"
            /\ flow[f].result = "r400"
            /\ flow[f].calls = <<"exchange">>
            /\ net[f] = NoMsg
            /\ createdBy[f] = {}
            /\ flow[f].wrote = Null

\* one flow whose exchange failed and one whose token had no subject id
C17_Witness ==
    \E f, g \in Flows :
        /\ flow[f].failedAt = "exchange" /\ flow[f].result = "r400"
        /\ flow[g].failedAt = "claims" /\ flow[g].result = "r400"
        /\ \E a \in Answers(g, "exchange") : a[2] = 200 /\ a[3] = Null

\* C18: a flow whose lookup found no user and whose creation returned no
\* user id has ended with a status 500 response without calling
\* createSession; a flow whose createSession returned no token has ended with
\* a status 500 response, has not written 'sessionToken' and has not
\* navigated.
C18_MissingIdAborts ==
    \A f \in Flows :
        /\ (/\ \E a \in Answers(f, "lookup") : a[2] = 404
            /\ \E a \in Answers(f, "create") : Ok(a[2]) /\ a[3] = Null) =>
              /\ flow[f].pc = "done"
              /\ flow[f].result = "r500"
              /\ Count(flow[f].calls, "session") = 0
              /\ flow[f].wrote = Null
        /\ (\E a \in Answers(f, "session") : Ok(a[2]) /\ a[3] = Null) =>
              /\ flow[f].pc = "done"
              /\ flow[f].result = "r500"
              /\ flow[f].wrote = Null
              /\ ~flow[f].home
              /\ Count(flow[f].steps, "store") = 0
              /\ Count(flow[f].steps, "goto") = 0

\* one flow without a user id and one without a token, nothing stored
C18_Witness ==
    \E f, g \in Flows :
        /\ flow[f].failedAt = "userId" /\ flow[f].result = "r500"
        /\ flow[g].failedAt = "token" /\ flow[g].result = "r500"
        /\ localStorage = Null
        /\ location = "/login"

\* C19 (as claimed): no two users carry the same subject id, however the
\* flows of that subject id interleave.
C19_OneUserPerSubject ==
    \A g \in Subjects : Cardinality({u \in users : u.google_id = g}) <= 1

\* a call of a service method that has gone through the wrapper
Fetched(c) == call[c].pc # "idle" /\ call[c].requests > 0

\* C20: the request the token variant dispatches carries as Authorization
\* the bearer of the token that was stored when the call was made exactly
\* when the call is authenticated and that token is not empty; otherwise its
\* Authorization is what the caller passed; the method, the body and the
\* other header are the caller's in every case.
C20_BearerIffAuthAndToken ==
    \A c \in Calls : Fetched(c) =>
        LET cl == call[c]
            attached == /\ ~Falsy(cl.hadToken)
                        /\ cl.sent.authz = Str(cl.hadToken)
        IN /\ attached <=> (cl.auth /\ ~Falsy(cl.hadToken))
           /\ ~attached => cl.sent.authz = cl.init.authz
           /\ cl.sent.method = cl.init.method
           /\ cl.sent.contentType = cl.init.contentType
           /\ cl.sent.body = cl.init.body
           /\ cl.authz = cl.sent.authz

\* with a token stored, an authenticated call that carries it and an
\* unauthenticated call that carries no Authorization
C20_Witness ==
    \E a, b \in Calls :
        /\ call[a].auth /\ call[a].hadToken = TokenOf(1)
        /\ call[a].sent.authz = TokenOf(1)
        /\ call[a].init.authz = NoHeader
        /\ ~call[b].auth /\ call[b].hadToken = TokenOf(1)
        /\ call[b].sent.authz = NoHeader
        /\ call[b].sent.method = "POST"

\* C21: every step of a call through the cookie variant leaves localStorage
\* as it is; the request it dispatches has credentials 'include' whatever
\* the caller passed, no Authorization of the wrapper's, and the caller's
\* method, body and headers; the step that takes a 401 response leaves the
\* location at '/login'.
C21_CookieVariant ==
    [][\A c \in Calls :
          call'[c] # call[c] =>
              /\ localStorage' = localStorage
              /\ call'[c].sent.credentials = "include"
              /\ call'[c].sent.authz = call'[c].init.authz
              /\ call'[c].sent.method = call'[c].init.method
              /\ call'[c].sent.contentType = call'[c].init.contentType
              /\ call'[c].sent.body = call'[c].init.body
              /\ (call'[c].pc = "returned" /\ call[c].status = 401) =>
                    location' = "/login"]_vars

\* with a token stored and the location at '/', a call that passed
\* credentials 'omit' went out with 'include', took a 401 and left the token
C21_Witness ==
    \E c \in Calls :
        /\ call[c].init.credentials = "omit"
        /\ call[c].sent.credentials = "include"
        /\ call[c].pc = "returned"
        /\ call[c].status = 401
        /\ location = "/login"
        /\ localStorage = TokenOf(1)
        /\ \E f \in Flows : flow[f].home

\* C22: a getCurrentUser that got a response has returned undefined for a
\* 404, has thrown an error carrying the status for every other non-2xx
\* status, and for a 2xx status has returned the user of the body, or
\* undefined when the body has none.
C22_GetCurrentUserOutcomes ==
    \A c \in Calls :
        call[c].op = "getCurrentUser" /\ call[c].pc = "returned" =>
            LET cl == call[c]
            IN /\ cl.status = 404 =>
                    cl.outcome = "undefined" /\ cl.errStatus = 0
               /\ (cl.status # 404 /\ ~Ok(cl.status)) =>
                    cl.outcome = "threw" /\ cl.errStatus = cl.status
               /\ (Ok(cl.status) /\ cl.body # Null) =>
                    cl.outcome = "value" /\ cl.value = cl.body
               /\ (Ok(cl.status) /\ cl.body = Null) =>
                    cl.outcome = "undefined" /\ cl.value = Null

\* one getCurrentUser answered 404 and one answered 200 without a user, both
\* undefined
C22_Witness ==
    \E a, b \in Calls :
        /\ call[a].op = "getCurrentUser" /\ call[a].status = 404
        /\ call[a].outcome = "undefined"
        /\ call[b].op = "getCurrentUser" /\ call[b].status = 200
        /\ call[b].body = Null /\ call[b].outcome = "undefined"

\* the callback names no supported provider, or lacks the code or the state
BadOauthCallback(k) ==
    \/ cb[k].provider \notin {"google", "github"}
    \/ cb[k].code = Null
    \/ cb[k].state = Null

\* C23: a run of the provider-generic page whose provider is neither google
\* nor github, or whose code or state is missing, has ended with a status
\* 400 response and has made no call; every other run has called
\* handleOauthCallback exactly once; a run has navigated to '/' only when
\* that call was answered with success.
C23_GenericCallbackPage ==
    \A k \in Callbacks :
        cb[k].pc # "idle" =>
            /\ BadOauthCallback(k) =>
                  /\ cb[k].pc = "done"
                  /\ cb[k].result = "r400"
                  /\ cb[k].requests = 0
                  /\ ~cb[k].home
            /\ ~BadOauthCallback(k) => cb[k].requests = 1
            /\ cb[k].home =>
                  /\ cb[k].requests = 1
                  /\ Ok(cb[k].status)
                  /\ cb[k].result = "ok"
            /\ (cb[k].pc = "done" /\ ~Ok(cb[k].status)) => ~cb[k].home

\* a run for an unsupported provider was refused, one for github went home
C23_Witness ==
    \E j, k \in Callbacks :
        /\ cb[j].provider = "gitlab" /\ cb[j].code # Null /\ cb[j].state # Null
        /\ cb[j].result = "r400"
        /\ cb[k].provider = "github" /\ cb[k].home
        /\ location = "/"

\* C24: a load of the guarded page that finds 'sessionToken' absent or
\* empty redirects to '/login' and dispatches nothing; a load that finds a
\* token calls getCurrentUser, dispatched once, with that token.  What a
\* load does depends on the stored value alone, so the loads that follow a
\* 401 redirect for as long as no flow has stored a token.
C24_GuardedLoad ==
    [][\A c \in Calls :
          (call[c].pc = "idle" /\ call'[c].pc # "idle"
             /\ call'[c].op \in {"load", "getCurrentUser"}) =>
              /\ (localStorage = Null \/ localStorage = "") =>
                    /\ call'[c].op = "load"
                    /\ call'[c].outcome = "redirect"
                    /\ call'[c].requests = 0
                    /\ call'[c].pc = "returned"
                    /\ location' = "/login"
              /\ ~(localStorage = Null \/ localStorage = "") =>
                    /\ call'[c].op = "getCurrentUser"
                    /\ call'[c].requests = 1
                    /\ call'[c].authz = localStorage]_vars

\* a load found the token of the login and its getCurrentUser took a 401;
\* a later load redirected
C24_Witness ==
    \E c, d \in Calls :
        /\ c < d
        /\ call[c].op = "getCurrentUser" /\ call[c].hadToken = TokenOf(1)
        /\ call[c].pc = "returned" /\ call[c].status = 401
        /\ call[d].op = "load" /\ call[d].outcome = "redirect"
        /\ localStorage = Null
        /\ location = "/login"

\* the value is a token that the createSession of a flow with a valid
\* callback returned with success
FromCallbackFlow(v) ==
    \E f \in Flows :
        /\ ~BadCallback(f)
        /\ \E a \in Answers(f, "session") : Ok(a[2]) /\ a[3] = v

\* C25: after every step the value under 'sessionToken' is absent or a token
\* returned by the successful createSession of a flow that passed the state
\* validation; a step that writes it is the successful end of a flow, which
\* writes the token of that flow; a step that removes it is the return of an
\* authenticated wrapper call answered 401.
C25_TokenProvenance ==
    [][/\ (localStorage' = Null \/ FromCallbackFlow(localStorage)')
       /\ (localStorage' # localStorage /\ localStorage' # Null) =>
             \E f \in Flows :
                 /\ flow[f].pc = "session"
                 /\ flow'[f].pc = "done"
                 /\ flow'[f].result = "ok"
                 /\ flow'[f].wrote = localStorage'
       /\ (localStorage' # localStorage /\ localStorage' = Null) =>
             \E c \in Calls :
                 /\ call[c].pc = "answered"
                 /\ call'[c].pc = "returned"
                 /\ call[c].auth
                 /\ call[c].status = 401]_vars

\* the token of the login was stored, outlived a 401 to an unauthenticated
\* call and a 500 to an authenticated one, and is still there
C25_Witness ==
    /\ localStorage = TokenOf(1)
    /\ \E a, b \in Calls :
          /\ call[a].pc = "returned" /\ ~call[a].auth /\ call[a].status = 401
          /\ call[a].hadToken = TokenOf(1)
          /\ call[b].pc = "returned" /\ call[b].auth /\ call[b].status = 500
          /\ call[b].hadToken = TokenOf(1)

\* C26: the return of an authenticated call answered 401 removes the stored
\* token also when that token is no longer the one the call was sent with.
C26_RemovesWhateverIsStored ==
    [][\A c \in Calls :
          (/\ call[c].pc = "answered"
           /\ call'[c].pc = "returned"
           /\ call[c].auth
           /\ call[c].status = 401
           /\ call[c].hadToken # Null
           /\ localStorage # call[c].hadToken)
          => localStorage' = Null]_vars

\* the call was sent with the token of the first login; the second login
\* wrote its own; the 401 to the call removed it
C26_Witness ==
    \E c \in Calls :
        /\ call[c].hadToken = TokenOf(1)
        /\ call[c].authz = TokenOf(1)
        /\ call[c].pc = "returned"
        /\ call[c].status = 401
        /\ \E f \in Flows : flow[f].wrote = TokenOf(2)
        /\ localStorage = Null

\* C27: a call made with auth = false goes out without the stored token,
\* with no Authorization at all, and so do the calls of the callback flow;
\* the step in which such a call takes its response, a 401 included, leaves
\* 'sessionToken' and the location as they are.
C27_UnauthenticatedCalls ==
    [][/\ \A c \in Calls :
             /\ (call'[c].requests > 0 /\ ~call'[c].auth) =>
                   /\ call'[c].sent.authz = NoHeader
                   /\ call'[c].authz = NoHeader
             /\ (/\ call[c].pc = "answered"
                 /\ call'[c].pc = "returned"
                 /\ ~call[c].auth) =>
                   /\ localStorage' = localStorage
                   /\ location' = location
       /\ \A f \in Flows :
             /\ net'[f].authz = NoHeader
             /\ (net[f].st = "answered" /\ ~Ok(net[f].status)
                   /\ flow'[f] # flow[f]) =>
                   /\ localStorage' = localStorage
                   /\ location' = location]_vars

\* with the token of the login stored and the location at '/', a createUser
\* went out without it, took a 401, and both are as they were
C27_Witness ==
    \E c \in Calls :
        /\ call[c].op = "createUser"
        /\ ~call[c].auth
        /\ call[c].hadToken = TokenOf(1)
        /\ call[c].sent.authz = NoHeader
        /\ call[c].pc = "returned"
        /\ call[c].status = 401
        /\ localStorage = TokenOf(1)
        /\ location = "/"

\* C28: no step changes sessionStorage; every flow has read the values that
\* are there; so of two flows with the same returned state (and a code), one
\* passes the state validation if the other did.
C28_SessionStorageOnlyRead ==
    [][/\ sessionStorage' = sessionStorage
       /\ \A f \in Flows :
             Started(f)' =>
                 /\ flow'[f].storedState = sessionStorage'.oauth_state
                 /\ flow'[f].codeVerifier = sessionStorage'.oauth_code_verifier
       /\ \A f, g \in Flows :
             (/\ Started(f)' /\ Started(g)'
              /\ ~BadCallback(f)'
              /\ flow'[g].state = flow'[f].state
              /\ flow'[g].code # Null) =>
                 /\ ~BadCallback(g)'
                 /\ flow'[g].failedAt # "state"]_vars

\* a flow that began after another had completed, with the same state, and
\* passed the validation too
C28_Witness ==
    \E f, g \in Flows :
        /\ flow[f].result = "ok"
        /\ flow[g].completedBefore = 1
        /\ flow[g].state = flow[f].state
        /\ flow[g].pc = "done"
        /\ flow[g].result = "ok"
        /\ flow[g].wrote = TokenOf(2)
        /\ sessionStorage = [oauth_state |-> "abc", oauth_code_verifier |-> "ver"]

\* C29: the token a call of the wrapper works with is the one stored when
\* the call is made, whatever was stored when its service object was built:
\* an authenticated call carries the bearer of the token stored at the call,
\* and with nothing stored it carries only what its caller passed.
C29_TokenReadAtCall ==
    [][\A c \in Calls :
          (call[c].pc = "idle" /\ call'[c].pc = "sent"
             /\ call'[c].requests > 0) =>
              /\ call'[c].hadToken = localStorage
              /\ (call'[c].auth /\ ~Falsy(localStorage)) =>
                    call'[c].sent.authz = Str(localStorage)
              /\ Falsy(localStorage) =>
                    call'[c].sent.authz = call'[c].init.authz]_vars

\* a service object built before the login: its first call carried the token
\* of the login and took a 401; its next call carried no Authorization
C29_Witness ==
    \E c, d \in Calls :
        /\ c < d
        /\ call[c].builtWith = Null /\ call[d].builtWith = Null
        /\ call[c].auth /\ call[c].sent.authz = TokenOf(1)
        /\ call[c].pc = "returned" /\ call[c].status = 401
        /\ call[d].auth /\ call[d].requests = 1
        /\ call[d].hadToken = Null
        /\ call[d].sent.authz = NoHeader
        /\ localStorage = Null

\* the commands of a trace, without their exit codes
Ran(trace) ==
    [i \in 1..Len(trace) |-> [cmd |-> trace[i].cmd, target |-> trace[i].target]]

\* only the last command of a trace can have failed
StoppedAtFailure(trace) == \A i \in 1..(Len(trace) - 1) : trace[i].exit = 0

\* C30: a run of deploy brings up the database, sleeps, brings up the
\* services and then Jaeger, in that order, and runs nothing after a command
\* that failed; a run of undeploy takes down Jaeger, the services and the
\* database, in that order.
C30_DeployOrder ==
    /\ IsPrefix(Ran(stack.trace["deploy"]),
                << [cmd |-> "up", target |-> "db"],
                   [cmd |-> "sleep", target |-> Null],
                   [cmd |-> "up", target |-> "services"],
                   [cmd |-> "up", target |-> "jaeger"] >>)
    /\ StoppedAtFailure(stack.trace["deploy"])
    /\ IsPrefix(Ran(stack.trace["undeploy"]),
                << [cmd |-> "down", target |-> "jaeger"],
                   [cmd |-> "down", target |-> "services"],
                   [cmd |-> "down", target |-> "db"] >>)
    /\ (~stack.running /\ stack.name # "none" /\ stack.status = 0) =>
          Len(stack.trace[stack.name]) = Len(CommandsOf(stack.name))

\* an undeploy that ran to its end, then a deploy whose services failed to
\* start: the script has ended and Jaeger is not up
C30_Witness ==
    /\ ~stack.running /\ stack.name = "deploy" /\ stack.status # 0
    /\ Len(stack.trace["deploy"]) = 3
    /\ stack.trace["deploy"][3].target = "services"
    /\ stack.trace["deploy"][3].exit # 0
    /\ "db" \in stack.up /\ "jaeger" \notin stack.up
    /\ Len(stack.trace["undeploy"]) = 3
    /\ \A i \in 1..3 : stack.trace["undeploy"][i].exit = 0

====
